---- MODULE Spec2Model ----
(***************************************************************************)
(* Model of gym_app.py: a Streamlit script over the SQLite file gym.db.    *)
(* Every widget interaction runs the script top to bottom (one "pass"):    *)
(* init_db, then the branch of the page chosen in the sidebar menu.        *)
(*                                                                         *)
(*   Spec          one operator; each action is one whole interaction      *)
(*   SpecRule      the AI-Insights rule chain applied to drawn inputs      *)
(*   SpecSessions  two sessions whose passes interleave statement by       *)
(*                 statement inside run_command, over a gym.db that may    *)
(*                 already exist when the process starts                   *)
(***************************************************************************)
EXTENDS Integers, Sequences, FiniteSets, TLC

VARIABLES
    tables,      \* names of the tables present in gym.db
    members,     \* rows of table members, in rowid order
    attendance,  \* rows of table attendance, in rowid order
    finance,     \* rows of table finance, in rowid order
    today,       \* the day datetime.now() reports
    screen,      \* what the last pass rendered
    added,       \* history: number of "Add Member" presses so far
    pc,          \* per session: position of its pass inside run_command
    cmd,         \* per session: the INSERT its pass is carrying out
    txn,         \* per session: the row written by execute, not yet committed
    lock         \* the session holding SQLite's write lock

vars == <<tables, members, attendance, finance, today, screen, added, pc, cmd, txn, lock>>

db == [tables |-> tables, members |-> members, attendance |-> attendance, finance |-> finance]

(* ------------------------------ bounds -------------------------------- *)

MaxRows == 3        \* rows over the three stores together
MaxDay == 2         \* days the clock runs through
MaxAbsProfit == 5   \* SpecRule draws profit from -MaxAbsProfit..MaxAbsProfit
MaxActiveIn == 20   \* SpecRule draws the active count from 0..MaxActiveIn

(* --------------------------- input domains ---------------------------- *)

Names == {"", "Asha"}
Phones == {"98"}   \* the phone is only stored and listed
Statuses == {"Active", "Expired"}
Types == {"Income", "Expense"}
Amounts == {20, 30, 100}
Descriptions == {"Fees"}
Times == {"09:00:00", "18:30:00"}
Menus == {"Dashboard", "Members", "Attendance", "Finance"}
AllTables == {"members", "attendance", "finance"}
Users == {"u1", "u2"}
NoUser == "none"
NoRow == [table |-> "none"]
LowMembership == 10

ProfitInputs == (-MaxAbsProfit .. MaxAbsProfit) \cup {100}
ActiveInputs == (0 .. MaxActiveIn) \cup {50}

(* ------------------------------ helpers ------------------------------- *)

\* date.isoformat(): what sqlite3 stores for a date parameter and what
\* str(date) yields; the text is kept as its three zero-padded fields.
IsoFormat(d) == <<"2024", "01", d>>

RowIds(rows) == {rows[i].id : i \in 1 .. Len(rows)}

\* rowid given to a row inserted without an id: one more than the largest.
NextId(rows) ==
    IF rows = <<>> THEN 1
    ELSE (CHOOSE m \in RowIds(rows) : \A k \in RowIds(rows) : k <= m) + 1

\* Series.sum(): 0 for an empty series.
RECURSIVE SumAmount(_)
SumAmount(rows) ==
    IF rows = <<>> THEN 0 ELSE Head(rows).amount + SumAmount(Tail(rows))

(* ------------------------------ init_db ------------------------------- *)

\* variant: the table is created anew on every run (DROP, then CREATE).
CreateTableReplacing(present, rows) == <<>>

\* CREATE TABLE IF NOT EXISTS: an absent table is created empty, a present
\* one is left as it is.
CreateTableIfNotExists(present, rows) == IF present THEN rows ELSE <<>>

InitDb(d) ==
    [tables     |-> d.tables \cup AllTables,
     members    |-> CreateTableIfNotExists("members" \in d.tables, d.members),
     attendance |-> CreateTableIfNotExists("attendance" \in d.tables, d.attendance),
     finance    |-> CreateTableIfNotExists("finance" \in d.tables, d.finance)]

(* ------------------------------ INSERTs ------------------------------- *)

MemberRow(rows, name, phone, status, d) ==
    [id |-> NextId(rows), name |-> name, phone |-> phone, status |-> status,
     join_date |-> IsoFormat(d)]

\* variant: a blank name is rejected instead of stored.
InsertMemberValidated(rows, name, phone, status, d) ==
    IF name = "" THEN rows ELSE Append(rows, MemberRow(rows, name, phone, status, d))

InsertMember(rows, name, phone, status, d) ==
    Append(rows, MemberRow(rows, name, phone, status, d))

AttendanceRow(rows, m_id, d, t) ==
    [id |-> NextId(rows), member_id |-> m_id, date |-> IsoFormat(d), time |-> t]

\* variant: a member's earlier check-in is updated in place (INSERT OR REPLACE).
InsertAttendanceUpsert(rows, m_id, d, t) ==
    IF \E i \in 1 .. Len(rows) : rows[i].member_id = m_id
    THEN [i \in 1 .. Len(rows) |->
            IF rows[i].member_id = m_id
            THEN [rows[i] EXCEPT !.date = IsoFormat(d), !.time = t]
            ELSE rows[i]]
    ELSE Append(rows, AttendanceRow(rows, m_id, d, t))

InsertAttendance(rows, m_id, d, t) == Append(rows, AttendanceRow(rows, m_id, d, t))

FinanceRow(rows, f_type, amount, desc, d) ==
    [id |-> NextId(rows), type |-> f_type, amount |-> amount, description |-> desc,
     date |-> IsoFormat(d)]

InsertFinance(rows, f_type, amount, desc, d) ==
    Append(rows, FinanceRow(rows, f_type, amount, desc, d))

(* ----------------------------- Dashboard ------------------------------ *)

\* variant: the count of distinct names (members['name'].nunique()).
TotalMembersDistinctNames(mem) == Cardinality({mem[i].name : i \in 1 .. Len(mem)})

TotalMembers(mem) == Len(mem)

ActiveMembers(mem) == Len(SelectSeq(mem, LAMBDA m : m.status = "Active"))

Income(fin) == SumAmount(SelectSeq(fin, LAMBDA f : f.type = "Income"))

\* variant: the type filter is left out of the expense sum.
ExpenseUnfiltered(fin) == SumAmount(fin)

Expense(fin) == SumAmount(SelectSeq(fin, LAMBDA f : f.type = "Expense"))

Profit(income, expense) == income - expense

\* variant: the membership threshold taken inclusively (<= 10).
AdvisoryInclusiveThreshold(profit, active_members) ==
    IF profit < 0 THEN "expenses exceed income"
    ELSE IF active_members <= LowMembership THEN "low membership"
    ELSE "healthy"

\* the if / elif / else chain under "AI Insights"
Advisory(profit, active_members) ==
    IF profit < 0 THEN "expenses exceed income"
    ELSE IF active_members < LowMembership THEN "low membership"
    ELSE "healthy"

(* ----------------------------- Attendance ----------------------------- *)

\* SELECT id, name FROM members WHERE status='Active'
MemberList(mem) == SelectSeq(mem, LAMBDA m : m.status = "Active")

\* dict(zip(names, ids)): a later pair with the same name replaces the id.
MemberDict(member_list) ==
    [n \in {member_list[i].name : i \in 1 .. Len(member_list)} |->
        member_list[CHOOSE i \in 1 .. Len(member_list) :
            /\ member_list[i].name = n
            /\ \A j \in 1 .. Len(member_list) : member_list[j].name = n => j <= i].id]

\* list(member_dict.keys()): the names, each once, in order of first occurrence.
RECURSIVE DictKeys(_, _)
DictKeys(member_list, seen) ==
    IF member_list = <<>> THEN <<>>
    ELSE IF Head(member_list).name \in seen THEN DictKeys(Tail(member_list), seen)
    ELSE <<Head(member_list).name>>
            \o DictKeys(Tail(member_list), seen \cup {Head(member_list).name})

RECURSIVE JoinMembers(_, _)
JoinMembers(att, mem) ==
    IF att = <<>> THEN <<>>
    ELSE LET a == Head(att)
             hit == SelectSeq(mem, LAMBDA m : m.id = a.member_id)
         IN [i \in 1 .. Len(hit) |-> [name |-> hit[i].name, time |-> a.time]]
                \o JoinMembers(Tail(att), mem)

\* variant: the join without its WHERE clause.
TodaysLogsUnfiltered(att, mem, d) == JoinMembers(att, mem)

\* SELECT members.name, attendance.time FROM attendance JOIN members
\*   ON attendance.member_id = members.id WHERE attendance.date = ?
TodaysLogs(att, mem, d) ==
    JoinMembers(SelectSeq(att, LAMBDA a : a.date = IsoFormat(d)), mem)

(* ------------------------------ Finance ------------------------------- *)

\* variant: the aggregate is .last() instead of .sum().
GroupByLast(fin_data) ==
    LET has(t) == \E i \in 1 .. Len(fin_data) : fin_data[i].type = t
        keys == SelectSeq(<<"Expense", "Income">>, has)
        of(t) == SelectSeq(fin_data, LAMBDA f : f.type = t)
    IN [k \in 1 .. Len(keys) |->
            [type |-> keys[k], amount |-> of(keys[k])[Len(of(keys[k]))].amount]]

\* fin_data.groupby('type')['amount'].sum().reset_index(): one row per type
\* present, keys sorted.
GroupBySum(fin_data) ==
    LET has(t) == \E i \in 1 .. Len(fin_data) : fin_data[i].type = t
        keys == SelectSeq(<<"Expense", "Income">>, has)
    IN [k \in 1 .. Len(keys) |->
            [type |-> keys[k],
             amount |-> SumAmount(SelectSeq(fin_data, LAMBDA f : f.type = keys[k]))]]

(* ------------------------------ screens ------------------------------- *)

Blank ==
    [menu |-> "none", total_members |-> 0, active_members |-> 0, income |-> 0,
     expense |-> 0, profit |-> 0, advisory |-> "none", members_df |-> <<>>,
     options |-> <<>>, member_dict |-> <<>>, logs |-> <<>>, chart |-> <<>>,
     date |-> 0]

RenderDashboard(d) ==
    LET income == Income(d.finance)
        expense == Expense(d.finance)
        profit == Profit(income, expense)
        active == ActiveMembers(d.members)
    IN [Blank EXCEPT !.menu = "Dashboard",
                     !.total_members = TotalMembers(d.members),
                     !.active_members = active,
                     !.income = income, !.expense = expense, !.profit = profit,
                     !.advisory = Advisory(profit, active)]

RenderMembers(d) == [Blank EXCEPT !.menu = "Members", !.members_df = d.members]

RenderAttendance(d, day) ==
    LET member_list == MemberList(d.members)
    IN [Blank EXCEPT !.menu = "Attendance",
                     !.options = DictKeys(member_list, {}),
                     !.member_dict = MemberDict(member_list),
                     !.logs = TodaysLogs(d.attendance, d.members, day),
                     !.date = day]

RenderFinance(d) ==
    [Blank EXCEPT !.menu = "Finance",
                  !.chart = IF d.finance = <<>> THEN <<>> ELSE GroupBySum(d.finance)]

Render(menu, d, day) ==
    CASE menu = "Dashboard" -> RenderDashboard(d)
      [] menu = "Members" -> RenderMembers(d)
      [] menu = "Attendance" -> RenderAttendance(d, day)
      [] menu = "Finance" -> RenderFinance(d)

(* ------------------------- Spec: one operator ------------------------- *)

NoDb == [tables |-> {}, members |-> <<>>, attendance |-> <<>>, finance |-> <<>>]

SetDb(d) ==
    /\ tables' = d.tables
    /\ members' = d.members
    /\ attendance' = d.attendance
    /\ finance' = d.finance

DbIs(d) ==
    /\ tables = d.tables
    /\ members = d.members
    /\ attendance = d.attendance
    /\ finance = d.finance

Rows == Len(members) + Len(attendance) + Len(finance)

SessionsIdle ==
    /\ pc = [u \in Users |-> "idle"]
    /\ cmd = [u \in Users |-> NoRow]
    /\ txn = [u \in Users |-> NoRow]
    /\ lock = NoUser

\* first pass of a fresh process: no gym.db yet, the menu at its default.
Init ==
    /\ DbIs(InitDb(NoDb))
    /\ today = 1
    /\ screen = RenderDashboard(InitDb(NoDb))
    /\ added = 0
    /\ SessionsIdle

\* datetime.now() moves on to the next day.
Tick ==
    /\ today < MaxDay
    /\ today' = today + 1
    /\ UNCHANGED <<tables, members, attendance, finance, screen, added, pc, cmd, txn, lock>>

\* a pass with no button pressed: the menu is changed or the page reloaded.
ViewPage(menu) ==
    /\ SetDb(InitDb(db))
    /\ screen' = Render(menu, InitDb(db), today)
    /\ UNCHANGED <<today, added, pc, cmd, txn, lock>>

\* "Add Member" pressed: the INSERT, then st.rerun() renders the page anew.
AddMember(name, phone, status) ==
    /\ screen.menu = "Members"
    /\ Rows < MaxRows
    /\ LET d1 == InitDb(db)
           d2 == [d1 EXCEPT !.members = InsertMember(d1.members, name, phone, status, today)]
           d3 == InitDb(d2)
       IN /\ SetDb(d3)
          /\ screen' = RenderMembers(d3)
    /\ added' = added + 1
    /\ UNCHANGED <<today, pc, cmd, txn, lock>>

\* "Mark Present" pressed with selected_member chosen in the selectbox.
MarkPresent(selected_member, t) ==
    /\ screen.menu = "Attendance"
    /\ Rows < MaxRows
    /\ LET d1 == InitDb(db)
           member_dict == MemberDict(MemberList(d1.members))
       IN /\ selected_member \in DOMAIN member_dict
          /\ LET d2 == [d1 EXCEPT !.attendance =
                          InsertAttendance(d1.attendance, member_dict[selected_member], today, t)]
             IN /\ SetDb(d2)
                /\ screen' = RenderAttendance(d2, today)
    /\ UNCHANGED <<today, added, pc, cmd, txn, lock>>

\* "Add Transaction" submitted: the INSERT, then st.rerun().
AddTransaction(f_type, amount, desc) ==
    /\ screen.menu = "Finance"
    /\ Rows < MaxRows
    /\ LET d1 == InitDb(db)
           d2 == [d1 EXCEPT !.finance = InsertFinance(d1.finance, f_type, amount, desc, today)]
           d3 == InitDb(d2)
       IN /\ SetDb(d3)
          /\ screen' = RenderFinance(d3)
    /\ UNCHANGED <<today, added, pc, cmd, txn, lock>>

Views == \E menu \in Menus : ViewPage(menu)

AddsMember == \E name \in Names, phone \in Phones, status \in Statuses : AddMember(name, phone, status)

MarksPresent == \E selected_member \in Names, t \in Times : MarkPresent(selected_member, t)

AddsTransaction ==
    \E f_type \in Types, amount \in Amounts, desc \in Descriptions : AddTransaction(f_type, amount, desc)

Next == Tick \/ Views \/ AddsMember \/ MarksPresent \/ AddsTransaction

Spec == Init /\ [][Next]_vars

(* ------------------- SpecRule: the rule chain alone ------------------- *)

\* a Dashboard pass that has computed profit and active_members and has
\* not yet reached the rule chain.
InitRule ==
    /\ DbIs(InitDb(NoDb))
    /\ today = 1
    /\ added = 0
    /\ SessionsIdle
    /\ \E profit \in ProfitInputs, active \in ActiveInputs :
          screen = [Blank EXCEPT !.menu = "Dashboard", !.profit = profit,
                                 !.total_members = active, !.active_members = active]

RuleEval ==
    /\ screen.menu = "Dashboard"
    /\ screen.advisory = "none"
    /\ screen' = [screen EXCEPT !.advisory = Advisory(screen.profit, screen.active_members)]
    /\ UNCHANGED <<tables, members, attendance, finance, today, added, pc, cmd, txn, lock>>

SpecRule == InitRule /\ [][RuleEval]_vars

(* ------------- SpecSessions: two sessions, run_command stepwise -------- *)

PreMembers == {<<>>, InsertMember(<<>>, "Asha", "98", "Active", 1)}

PreFinance == {<<>>, InsertFinance(<<>>, "Income", 100, "Fees", 1)}

\* the gym.db files a starting process may find: any of the tables may be
\* missing, and a missing table has no rows.
PreDbs ==
    {d \in [tables : SUBSET AllTables, members : PreMembers, attendance : {<<>>},
            finance : PreFinance] :
        /\ "members" \notin d.tables => d.members = <<>>
        /\ "finance" \notin d.tables => d.finance = <<>>}

InitSessions ==
    /\ \E d \in PreDbs : DbIs(d)
    /\ today = 1
    /\ screen = Blank
    /\ added = 0
    /\ SessionsIdle

\* the button presses a session may make, as the parameters of its INSERT
Presses ==
    [table : {"members"}, name : Names, phone : {"98"}, status : Statuses]
        \cup [table : {"attendance"}, selected_member : Names, time : {"09:00:00"}]
        \cup [table : {"finance"}, type : Types, amount : {30}, description : {"Fees"}]

\* variant: a storage engine that lets two write transactions overlap.
LockAlwaysFree(holder) == TRUE

\* c.execute(INSERT) needs SQLite's write lock: it waits while another
\* connection holds it.
LockFree(holder) == holder = NoUser

InFlight == Cardinality({u \in Users : pc[u] # "idle"})

\* the pass up to sqlite3.connect in run_command: init_db, the page's reads,
\* the parameters of the INSERT.
BeginPass(u, press) ==
    /\ pc[u] = "idle"
    /\ Rows + InFlight < MaxRows
    /\ LET d1 == InitDb(db)
           member_dict == MemberDict(MemberList(d1.members))
       IN /\ press.table = "attendance" => press.selected_member \in DOMAIN member_dict
          /\ SetDb(d1)
          /\ cmd' = [cmd EXCEPT ![u] =
                CASE press.table = "members" ->
                       [table |-> "members", name |-> press.name, phone |-> press.phone,
                        status |-> press.status, date |-> today]
                  [] press.table = "attendance" ->
                       [table |-> "attendance", m_id |-> member_dict[press.selected_member],
                        date |-> today, time |-> press.time]
                  [] press.table = "finance" ->
                       [table |-> "finance", type |-> press.type, amount |-> press.amount,
                        description |-> press.description, date |-> today]]
    /\ pc' = [pc EXCEPT ![u] = "connected"]
    /\ UNCHANGED <<today, screen, added, txn, lock>>

\* c.execute(command, params): the row, with its rowid, in the open transaction
Execute(u) ==
    /\ pc[u] = "connected"
    /\ LockFree(lock)
    /\ lock' = u
    /\ txn' = [txn EXCEPT ![u] =
          [table |-> cmd[u].table,
           row |-> CASE cmd[u].table = "members" ->
                          MemberRow(members, cmd[u].name, cmd[u].phone, cmd[u].status, cmd[u].date)
                     [] cmd[u].table = "attendance" ->
                          AttendanceRow(attendance, cmd[u].m_id, cmd[u].date, cmd[u].time)
                     [] cmd[u].table = "finance" ->
                          FinanceRow(finance, cmd[u].type, cmd[u].amount, cmd[u].description,
                                     cmd[u].date)]]
    /\ pc' = [pc EXCEPT ![u] = "executed"]
    /\ UNCHANGED <<tables, members, attendance, finance, today, screen, added, cmd>>

\* conn.commit(): the row becomes part of the table, the lock is released
Commit(u) ==
    /\ pc[u] = "executed"
    /\ members' = IF txn[u].table = "members" THEN Append(members, txn[u].row) ELSE members
    /\ attendance' =
          IF txn[u].table = "attendance" THEN Append(attendance, txn[u].row) ELSE attendance
    /\ finance' = IF txn[u].table = "finance" THEN Append(finance, txn[u].row) ELSE finance
    /\ lock' = NoUser
    /\ pc' = [pc EXCEPT ![u] = "committed"]
    /\ UNCHANGED <<tables, today, screen, added, cmd, txn>>

\* conn.close(), and the rest of the pass
Close(u) ==
    /\ pc[u] = "committed"
    /\ pc' = [pc EXCEPT ![u] = "idle"]
    /\ cmd' = [cmd EXCEPT ![u] = NoRow]
    /\ txn' = [txn EXCEPT ![u] = NoRow]
    /\ UNCHANGED <<tables, members, attendance, finance, today, screen, added, lock>>

BeginsPass == \E u \in Users, press \in Presses : BeginPass(u, press)

NextSessions ==
    \/ BeginsPass
    \/ \E u \in Users : Execute(u)
    \/ \E u \in Users : Commit(u)
    \/ \E u \in Users : Close(u)

SpecSessions == InitSessions /\ [][NextSessions]_vars

(* ============================ properties ============================== *)

ActiveIds == {members[i].id : i \in {j \in 1 .. Len(members) : members[j].status = "Active"}}

TypeIndices(t) == {i \in 1 .. Len(finance) : finance[i].type = t}

\* the amounts of the finance rows at the indices I, added up in any order
RECURSIVE SumOver(_)
SumOver(I) ==
    IF I = {} THEN 0
    ELSE LET i == CHOOSE k \in I : TRUE IN finance[i].amount + SumOver(I \ {i})

TypeTotal(t) == SumOver(TypeIndices(t))

IdsUnique(rows) == \A i, j \in 1 .. Len(rows) : rows[i].id = rows[j].id => i = j

IsPrefix(s, t) == Len(s) <= Len(t) /\ \A i \in 1 .. Len(s) : t[i] = s[i]

StoreOf(t) ==
    CASE t = "members" -> members [] t = "attendance" -> attendance [] t = "finance" -> finance

Writes == AddsMember \/ MarksPresent \/ AddsTransaction

\* C1: whenever the Dashboard is shown, its total member count is the number
\* of add-member actions performed so far, whatever names, phones and
\* statuses were entered and whatever else was done in between.
C1_TotalEqualsAdds == screen.menu = "Dashboard" => screen.total_members = added

C1_Witness ==
    /\ screen.menu = "Dashboard"
    /\ added = 2
    /\ members[1].name = "" /\ members[2].name = ""
    /\ attendance # <<>>

\* C2: in every state the number of Active members is at most the number of
\* members, in the stores and in the two Dashboard metrics.
C2_ActiveAtMostTotal ==
    /\ ActiveMembers(members) <= TotalMembers(members)
    /\ screen.menu = "Dashboard" => screen.active_members <= screen.total_members

C2_Witness ==
    /\ screen.menu = "Dashboard"
    /\ screen.active_members = 2
    /\ screen.total_members = 2
    /\ members[1].name = members[2].name

\* C3: the Dashboard's profit is the total of the Income amounts minus the
\* total of the Expense amounts, each total 0 when there is no such
\* transaction; with no transactions the profit is 0.
C3_ProfitIsIncomeMinusExpense ==
    screen.menu = "Dashboard" =>
        /\ screen.income = TypeTotal("Income")
        /\ screen.expense = TypeTotal("Expense")
        /\ screen.profit = TypeTotal("Income") - TypeTotal("Expense")
        /\ finance = <<>> => screen.profit = 0

C3_Witness ==
    /\ screen.menu = "Dashboard"
    /\ Len(finance) = 3
    /\ screen.income = 20
    /\ screen.expense = 130
    /\ screen.profit = -110

\* C4: the rule chain emits exactly one advisory: "expenses exceed income"
\* iff profit < 0, "low membership" iff profit >= 0 and fewer than 10 active
\* members, "healthy" iff profit >= 0 and at least 10 active members.
C4_RuleChain ==
    screen.advisory # "none" =>
        /\ screen.advisory \in {"expenses exceed income", "low membership", "healthy"}
        /\ screen.advisory = "expenses exceed income" <=> screen.profit < 0
        /\ screen.advisory = "low membership" <=>
              (screen.profit >= 0 /\ screen.active_members < 10)
        /\ screen.advisory = "healthy" <=>
              (screen.profit >= 0 /\ screen.active_members >= 10)

C4_Witness ==
    /\ screen.advisory = "healthy"
    /\ screen.profit = 0
    /\ screen.active_members = 10

\* C5: the log on the Attendance view has one (name, time) row for each
\* attendance record dated the day of the view, carrying the name of the
\* record's member, and no row for a record of another day.
C5_TodaysLog ==
    screen.menu = "Attendance" =>
        LET todays == {i \in 1 .. Len(attendance) : attendance[i].date = IsoFormat(screen.date)}
            memberOf(i) ==
                CHOOSE k \in 1 .. Len(members) : members[k].id = attendance[i].member_id
            shown(i) == [name |-> members[memberOf(i)].name, time |-> attendance[i].time]
            logs == screen.logs
        IN /\ Len(logs) = Cardinality(todays)
           /\ \A i \in todays :
                 Cardinality({k \in 1 .. Len(logs) : logs[k] = shown(i)})
                    = Cardinality({j \in todays : shown(j) = shown(i)})

C5_Witness ==
    /\ screen.menu = "Attendance"
    /\ screen.date = 2
    /\ Len(attendance) = 2
    /\ attendance[1].member_id = attendance[2].member_id
    /\ attendance[1].date = IsoFormat(1)
    /\ attendance[2].date = IsoFormat(2)
    /\ Len(screen.logs) = 1

C7_AppendOnly ==
    [][/\ IsPrefix(members, members')
       /\ IsPrefix(attendance, attendance')
       /\ IsPrefix(finance, finance')
       /\ \/ Len(members') + Len(attendance') + Len(finance')
                = Len(members) + Len(attendance) + Len(finance) + 1
          \/ ~Writes
       /\ \/ (members' = members /\ attendance' = attendance /\ finance' = finance)
          \/ ~Views]_vars

C7_Witness ==
    /\ Len(members) = 1
    /\ Len(attendance) = 2
    /\ attendance[1].member_id = attendance[2].member_id
    /\ screen.menu = "Dashboard"

\* C8: init_db at the start of a pass creates the missing tables and keeps
\* every row; with the three tables present it changes nothing, and running
\* it again on its result changes nothing.
C8_InitDbIdempotent ==
    [][BeginsPass =>
          /\ tables' = AllTables
          /\ members' = members /\ attendance' = attendance /\ finance' = finance
          /\ tables = AllTables => InitDb(db) = db
          /\ InitDb(InitDb(db)) = InitDb(db)]_vars

C8_Witness ==
    /\ members # <<>>
    /\ lock = NoUser
    /\ \A u \in Users : pc[u] = "connected"

\* C9: under every interleaving of two sessions' writes, ids are unique
\* within each store and the row of every committed insert is in its store.
C9_ConcurrentInserts ==
    /\ IdsUnique(members) /\ IdsUnique(attendance) /\ IdsUnique(finance)
    /\ \A u \in Users :
          pc[u] = "committed" =>
             \E i \in 1 .. Len(StoreOf(txn[u].table)) : StoreOf(txn[u].table)[i] = txn[u].row
    /\ \A u, v \in Users :
          (u # v /\ pc[u] = "committed" /\ pc[v] = "committed"
                 /\ txn[u].table = txn[v].table) => txn[u].row.id # txn[v].row.id

C9_Witness ==
    /\ \A u \in Users : pc[u] = "committed" /\ txn[u].table = "members"
    /\ Len(members) >= 2

\* C10: on the Attendance view every Active member can be selected, so that
\* a mark-present action can record a check-in under that member's own id.
C10_EveryActiveSelectable ==
    screen.menu = "Attendance" =>
        {screen.member_dict[n] : n \in DOMAIN screen.member_dict} = ActiveIds

====
